---------------------------- MODULE Spec2Model ----------------------------
(***************************************************************************)
(* Model of the address validation service (address-api).                  *)
(*                                                                         *)
(* A JavaScript string is a sequence of one-character strings, so that     *)
(* the regular expressions of the parser and of the reconciler are         *)
(* computed character by character.  An optional value (null / undefined   *)
(* or a value) is a sequence of length 0 or 1: Null is <<>>, Some(v) is    *)
(* <<v>>.  A value is "truthy" when it is present and not the empty        *)
(* string.                                                                 *)
(***************************************************************************)
EXTENDS Integers, Sequences, FiniteSets, TLC

-----------------------------------------------------------------------------
(* Optional values *)

Null == <<>>

Some(v) == <<v>>

\* JavaScript truthiness of an optional string: !!x
Truthy(o) == o # Null /\ o[1] # <<>>

\* x || null  for an optional string
OrNull(o) == IF Truthy(o) THEN o ELSE Null

\* const x = value; body(x): a local constant that is computed once
With(value, body(_)) == body(value)

-----------------------------------------------------------------------------
(* Characters and the character classes of the regular expressions *)

LowerAlpha ==
  <<"a","b","c","d","e","f","g","h","i","j","k","l","m",
    "n","o","p","q","r","s","t","u","v","w","x","y","z">>

UpperAlpha ==
  <<"A","B","C","D","E","F","G","H","I","J","K","L","M",
    "N","O","P","Q","R","S","T","U","V","W","X","Y","Z">>

Range(s) == {s[i] : i \in DOMAIN s}

Digits == {"0","1","2","3","4","5","6","7","8","9"}

LowerLetters == Range(LowerAlpha)

UpperLetters == Range(UpperAlpha)

\* \d
IsDigit(c) == c \in Digits

IsLower(c) == c \in LowerLetters

IsUpper(c) == c \in UpperLetters

\* [a-zA-Z]
IsLetter(c) == IsLower(c) \/ IsUpper(c)

WordChars == LowerLetters \cup UpperLetters \cup Digits \cup {"_"}

\* \w
IsWordChar(c) == c \in WordChars

WhiteSpace == {" ", "\t", "\n"}

\* \s
IsSpace(c) == c \in WhiteSpace

IndexIn(c, alphabet) == CHOOSE i \in DOMAIN alphabet : alphabet[i] = c

LowerOf == [c \in UpperLetters |-> LowerAlpha[IndexIn(c, UpperAlpha)]]

UpperOf == [c \in LowerLetters |-> UpperAlpha[IndexIn(c, LowerAlpha)]]

ToLowerChar(c) == IF IsUpper(c) THEN LowerOf[c] ELSE c

ToUpperChar(c) == IF IsLower(c) THEN UpperOf[c] ELSE c

\* String.prototype.toLowerCase
ToLower(s) == [i \in 1..Len(s) |-> ToLowerChar(s[i])]

\* String.prototype.toUpperCase
ToUpper(s) == [i \in 1..Len(s) |-> ToUpperChar(s[i])]

\* s.substring(from - 1): the suffix that starts at the 1-based index from
From(s, from) == SubSeq(s, from, Len(s))

\* the prefix that ends before the 1-based index upto
Before(s, upto) == SubSeq(s, 1, upto - 1)

\* \b at the 1-based position p (between s[p-1] and s[p])
WordBoundary(s, p) ==
  LET before == p > 1 /\ p - 1 <= Len(s) /\ IsWordChar(s[p - 1])
      after  == p >= 1 /\ p <= Len(s) /\ IsWordChar(s[p])
  IN  before # after

\* the string t occurs in s at the 1-based position p
MatchAt(s, p, t) ==
  /\ p >= 1
  /\ p + Len(t) - 1 <= Len(s)
  /\ \A i \in 1..Len(t) : s[p + i - 1] = t[i]

\* the same, ignoring case (the i flag)
MatchAtI(s, p, t) == MatchAt(ToLower(s), p, ToLower(t))

\* the least position of a set of positions, 0 when there is none
FirstOf(ps) == IF ps = {} THEN 0 ELSE CHOOSE p \in ps : \A q \in ps : p <= q

\* the end (exclusive) of the longest run of characters of class P(_) from p
RunEnd(s, p, P(_)) ==
  CHOOSE q \in p..(Len(s) + 1) :
    /\ \A i \in p..(q - 1) : P(s[i])
    /\ q = Len(s) + 1 \/ ~P(s[q])

\* String.prototype.trim
RECURSIVE TrimLeft(_)
TrimLeft(s) ==
  IF s # <<>> /\ IsSpace(Head(s)) THEN TrimLeft(Tail(s)) ELSE s

RECURSIVE TrimRight(_)
TrimRight(s) ==
  IF s # <<>> /\ IsSpace(s[Len(s)]) THEN TrimRight(SubSeq(s, 1, Len(s) - 1)) ELSE s

Trim(s) == TrimLeft(TrimRight(s))

\* Array.prototype.join
RECURSIVE Join(_, _)
Join(parts, sep) ==
  IF parts = <<>> THEN <<>>
  ELSE IF Len(parts) = 1 THEN parts[1]
  ELSE parts[1] \o sep \o Join(Tail(parts), sep)

\* String.prototype.split(c) for a one-character separator
RECURSIVE SplitOn(_, _)
SplitOn(s, c) ==
  LET p == FirstOf({i \in 1..Len(s) : s[i] = c})
  IN  IF p = 0 THEN <<s>>
      ELSE <<Before(s, p)>> \o SplitOn(From(s, p + 1), c)

\* String.prototype.split(/\s+/)
RECURSIVE SplitSpaces(_)
SplitSpaces(s) ==
  LET p == FirstOf({i \in 1..Len(s) : IsSpace(s[i])})
  IN  IF p = 0 THEN <<s>>
      ELSE <<Before(s, p)>> \o SplitSpaces(From(s, RunEnd(s, p, IsSpace)))

\* word.charAt(0).toUpperCase() + word.slice(1).toLowerCase()
Capitalize(word) ==
  IF word = <<>> THEN <<>>
  ELSE <<ToUpperChar(word[1])>> \o ToLower(Tail(word))

-----------------------------------------------------------------------------
(* Reference tables (utils/constants.js) *)

\* utils/constants.js US_STATES: abbreviation -> name, in the order of the table
\* (a sample of the table: the states the modelled inputs and results use)
US_STATES ==
  << <<<<"C","A">>, <<"C","a","l","i","f","o","r","n","i","a">>>>,
     <<<<"M","A">>, <<"M","a","s","s","a","c","h","u","s","e","t","t","s">>>>,
     <<<<"N","Y">>, <<"N","e","w"," ","Y","o","r","k">>>>,
     <<<<"V","A">>, <<"V","i","r","g","i","n","i","a">>>>,
     <<<<"W","V">>, <<"W","e","s","t"," ","V","i","r","g","i","n","i","a">>>> >>

\* utils/constants.js DIRECTIONS: lower-case abbreviation -> expansion
DIRECTIONS ==
  << <<<<"n">>, <<"N","o","r","t","h">>>>,
     <<<<"s">>, <<"S","o","u","t","h">>>>,
     <<<<"e">>, <<"E","a","s","t">>>>,
     <<<<"w">>, <<"W","e","s","t">>>>,
     <<<<"n","e">>, <<"N","o","r","t","h","e","a","s","t">>>>,
     <<<<"n","w">>, <<"N","o","r","t","h","w","e","s","t">>>>,
     <<<<"s","e">>, <<"S","o","u","t","h","e","a","s","t">>>>,
     <<<<"s","w">>, <<"S","o","u","t","h","w","e","s","t">>>> >>

\* utils/constants.js STREET_TYPES: lower-case abbreviation -> full form
STREET_TYPES ==
  << <<<<"s","t">>, <<"S","t","r","e","e","t">>>>,
     <<<<"a","v","e">>, <<"A","v","e","n","u","e">>>>,
     <<<<"b","l","v","d">>, <<"B","o","u","l","e","v","a","r","d">>>>,
     <<<<"r","d">>, <<"R","o","a","d">>>>,
     <<<<"d","r">>, <<"D","r","i","v","e">>>>,
     <<<<"l","n">>, <<"L","a","n","e">>>>,
     <<<<"c","t">>, <<"C","o","u","r","t">>>> >>

\* utils/constants.js UNIT_TYPES: lower-case designator -> normalized designator
UNIT_TYPES ==
  << <<<<"a","p","t">>, <<"A","p","t">>>>,
     <<<<"a","p","a","r","t","m","e","n","t">>, <<"A","p","t">>>>,
     <<<<"s","u","i","t","e">>, <<"S","u","i","t","e">>>>,
     <<<<"s","t","e">>, <<"S","u","i","t","e">>>>,
     <<<<"u","n","i","t">>, <<"U","n","i","t">>>>,
     <<<<"f","l","o","o","r">>, <<"F","l","o","o","r">>>>,
     <<<<"f","l">>, <<"F","l","o","o","r">>>>,
     <<<<"r","o","o","m">>, <<"R","o","o","m">>>>,
     <<<<"r","m">>, <<"R","o","o","m">>>> >>


\* table[key] of a JavaScript object used as a map: Null when the key is absent
Lookup(table, key) ==
  LET ix == {i \in DOMAIN table : table[i][1] = key}
  IN  IF ix = {} THEN Null ELSE Some(table[FirstOf(ix)][2])

-----------------------------------------------------------------------------
(* utils/addressParser.js *)

\* .replace(/\s+/g, ' ')
RECURSIVE CollapseSpaces(_)
CollapseSpaces(s) ==
  IF s = <<>> THEN <<>>
  ELSE IF IsSpace(s[1])
       THEN <<" ">> \o CollapseSpaces(From(s, RunEnd(s, 1, IsSpace)))
       ELSE <<s[1]>> \o CollapseSpaces(Tail(s))

\* .replace(/,\s*/g, ', ')
RECURSIVE CommaSpacing(_)
CommaSpacing(s) ==
  IF s = <<>> THEN <<>>
  ELSE IF s[1] = ","
       THEN <<",", " ">> \o CommaSpacing(From(s, RunEnd(s, 2, IsSpace)))
       ELSE <<s[1]>> \o CommaSpacing(Tail(s))

\* the normalization pass of parseAddress
NormalizeInput(s) == CommaSpacing(CollapseSpaces(Trim(s)))

AllDigits(s, p, n) ==
  /\ p >= 1
  /\ p + n - 1 <= Len(s)
  /\ \A i \in p..(p + n - 1) : IsDigit(s[i])

\* the length of the match of /\b(\d{5})(?:-(\d{4}))?\b/ that starts at p, 0 when
\* there is none: the +4 extension is tried first, then the bare five digits
ZipMatchLen(s, p) ==
  IF ~(WordBoundary(s, p) /\ AllDigits(s, p, 5)) THEN 0
  ELSE IF /\ p + 5 <= Len(s)
          /\ s[p + 5] = "-"
          /\ AllDigits(s, p + 6, 4)
          /\ WordBoundary(s, p + 10)
       THEN 10
  ELSE IF WordBoundary(s, p + 5) THEN 5
  ELSE 0

\* the position of the first ZIP match of the text, 0 when there is none
ZipMatchPos(s) == FirstOf({p \in 1..Len(s) : ZipMatchLen(s, p) > 0})

\* `${zipMatch[1]}-${zipMatch[2]}` or zipMatch[1]: the matched text itself
ZipOf(s) ==
  With(ZipMatchPos(s), LAMBDA p :
    IF p = 0 THEN Null ELSE Some(SubSeq(s, p, p + ZipMatchLen(s, p) - 1)))

\* String.prototype.includes
Includes(s, t) == \E p \in 1..(Len(s) + 1) : MatchAt(s, p, t)

\* the first match of /\b([A-Z]{2})\b/i, 0 when there is none
AbbrevMatchPos(s) ==
  FirstOf({p \in 1..Len(s) :
             /\ WordBoundary(s, p)
             /\ p + 1 <= Len(s)
             /\ IsLetter(s[p])
             /\ IsLetter(s[p + 1])
             /\ WordBoundary(s, p + 2)})

\* isValidState: the state code is a key of US_STATES
isValidState(state) ==
  Truthy(state) /\ Lookup(US_STATES, ToUpper(state[1])) # Null

\* the entries of US_STATES whose name the text includes, ignoring case
NamedStates(address) ==
  {i \in DOMAIN US_STATES : Includes(ToLower(address), ToLower(US_STATES[i][2]))}

\* the second half of extractState: the first entry of the table whose name
\* the text includes
extractStateByName(address) ==
  With(FirstOf(NamedStates(address)), LAMBDA i :
    IF i # 0
    THEN Some([abbreviation |-> US_STATES[i][1], name |-> US_STATES[i][2]])
    ELSE Null)

extractState(address) ==
  With(AbbrevMatchPos(address), LAMBDA p :
    With(IF p # 0 THEN Lookup(US_STATES, ToUpper(SubSeq(address, p, p + 1)))
         ELSE Null, LAMBDA name :
      IF name # Null
      THEN Some([abbreviation |-> ToUpper(SubSeq(address, p, p + 1)),
                 name         |-> name[1]])
      ELSE extractStateByName(address)))

\* .replace(/\.$/, '')
StripTrailingDot(s) ==
  IF s # <<>> /\ s[Len(s)] = "." THEN SubSeq(s, 1, Len(s) - 1) ELSE s

normalizeUnitType(type) ==
  LET found == Lookup(UNIT_TYPES, StripTrailingDot(ToLower(type)))
  IN  IF Truthy(found) THEN found[1] ELSE <<"U","n","i","t">>

\* the alternatives of the first unit pattern, in the order of the pattern
UnitDesignators ==
  << <<"a","p","t">>,
     <<"a","p","a","r","t","m","e","n","t">>,
     <<"s","u","i","t","e">>,
     <<"s","t","e">>,
     <<"u","n","i","t">>,
     <<"#">>,
     <<"f","l","o","o","r">>,
     <<"f","l">>,
     <<"r","o","o","m">>,
     <<"r","m">> >>

\* \.?\s*#?\s*(\w+)\s*$ from position q on: the bounds of the identifier
\* (\w+), from = 0 when the rest of the text does not match
UnitRest(w, q) ==
  LET q1 == IF q <= Len(w) /\ w[q] = "." THEN q + 1 ELSE q
      q2 == RunEnd(w, q1, IsSpace)
      q3 == IF q2 <= Len(w) /\ w[q2] = "#" THEN q2 + 1 ELSE q2
      q4 == RunEnd(w, q3, IsSpace)
      q5 == RunEnd(w, q4, IsWordChar)
      q6 == RunEnd(w, q5, IsSpace)
  IN  IF q5 > q4 /\ q6 = Len(w) + 1
      THEN [from |-> q4, to |-> q5 - 1]
      ELSE [from |-> 0, to |-> 0]

\* the alternatives of the first unit pattern that match at p with the rest
UnitAltsAt(w, p) ==
  {a \in DOMAIN UnitDesignators :
     /\ WordBoundary(w, p)
     /\ MatchAtI(w, p, UnitDesignators[a])
     /\ UnitRest(w, p + Len(UnitDesignators[a])).from # 0}

\* /\b(apt|apartment|suite|ste|unit|#|floor|fl|room|rm)\.?\s*#?\s*(\w+)\s*$/i
\* [pos, g1, g2]: the leftmost match and its two groups, pos = 0 for no match
UnitMatchFirst(w) ==
  With(FirstOf({q \in 1..Len(w) : UnitAltsAt(w, q) # {}}), LAMBDA p :
    IF p = 0 THEN [pos |-> 0, g1 |-> Null, g2 |-> Null]
    ELSE With(UnitDesignators[FirstOf(UnitAltsAt(w, p))], LAMBDA a :
           With(UnitRest(w, p + Len(a)), LAMBDA r :
             [pos |-> p,
              g1  |-> Some(SubSeq(w, p, p + Len(a) - 1)),
              g2  |-> Some(SubSeq(w, r.from, r.to))])))

\* /\s+#(\w+)\s*$/i : the match that starts at the white space of position p
HashUnitAt(w, p) ==
  LET q == RunEnd(w, p, IsSpace)
      r == RunEnd(w, q + 1, IsWordChar)
  IN  IF /\ IsSpace(w[p])
         /\ q <= Len(w)
         /\ w[q] = "#"
         /\ r > q + 1
         /\ RunEnd(w, r, IsSpace) = Len(w) + 1
      THEN [from |-> q + 1, to |-> r - 1]
      ELSE [from |-> 0, to |-> 0]

UnitMatchSecond(w) ==
  With(FirstOf({q \in 1..Len(w) : HashUnitAt(w, q).from # 0}), LAMBDA p :
    IF p = 0 THEN [pos |-> 0, g1 |-> Null, g2 |-> Null]
    ELSE With(HashUnitAt(w, p), LAMBDA g :
           [pos |-> p, g1 |-> Some(SubSeq(w, g.from, g.to)), g2 |-> Null]))

\* the loop over unitPatterns: the first pattern that matches
UnitMatch(w) ==
  With(UnitMatchFirst(w), LAMBDA first :
    IF first.pos # 0 THEN first ELSE UnitMatchSecond(w))

IsDigitOrHyphen(c) == IsDigit(c) \/ c = "-"

\* /^(\d+[-\d]*[a-zA-Z]?)\s+/ : [number, len], len (the length of the whole match)
\* is 0 when there is none
NumberMatch(w) ==
  With(RunEnd(w, 1, IsDigitOrHyphen), LAMBDA q :
    With(IF q <= Len(w) /\ IsLetter(w[q]) THEN q + 1 ELSE q, LAMBDA q2 :
      With(RunEnd(w, q2, IsSpace), LAMBDA e :
        IF w # <<>> /\ IsDigit(w[1]) /\ e > q2
        THEN [number |-> SubSeq(w, 1, q2 - 1), len |-> e - 1]
        ELSE [number |-> <<>>, len |-> 0])))

\* the callback with the street types matched as prefixes of the word
\* (startsWith instead of a lookup)
normalizeWordPrefix(words, index) ==
  With(StripTrailingDot(ToLower(words[index])), LAMBDA lower :
    With(Lookup(DIRECTIONS, lower), LAMBDA direction :
      With(FirstOf({i \in DOMAIN STREET_TYPES :
                      /\ Len(STREET_TYPES[i][1]) <= Len(lower)
                      /\ MatchAt(lower, 1, STREET_TYPES[i][1])}), LAMBDA i :
        IF (index = 1 \/ index = Len(words)) /\ Truthy(direction)
        THEN direction[1]
        ELSE IF (index = Len(words) \/ index = Len(words) - 1) /\ i # 0
             THEN STREET_TYPES[i][2] \o From(lower, Len(STREET_TYPES[i][1]) + 1)
             ELSE Capitalize(words[index]))))

\* the callback of words.map in normalizeStreetName
normalizeWord(words, index) ==
  With(StripTrailingDot(ToLower(words[index])), LAMBDA lower :
    With(Lookup(DIRECTIONS, lower), LAMBDA direction :
      With(Lookup(STREET_TYPES, lower), LAMBDA streetType :
        IF (index = 1 \/ index = Len(words)) /\ Truthy(direction)
        THEN direction[1]
        ELSE IF (index = Len(words) \/ index = Len(words) - 1) /\ Truthy(streetType)
             THEN streetType[1]
             ELSE Capitalize(words[index]))))

\* normalizeStreetName(street): null for the empty string
normalizeStreetName(street) ==
  IF street = <<>> THEN Null
  ELSE With(SplitSpaces(Trim(street)), LAMBDA words :
         Some(Join([i \in 1..Len(words) |-> normalizeWord(words, i)], <<" ">>)))

\* the unit that parseStreetAddress builds from a match of a unit pattern
UnitOf(unitMatch) ==
  With(IF Truthy(unitMatch.g1) THEN normalizeUnitType(unitMatch.g1[1])
       ELSE <<"U","n","i","t">>, LAMBDA unitType :
    With(IF Truthy(unitMatch.g2) THEN unitMatch.g2[1] ELSE unitMatch.g1[1],
         LAMBDA unitNumber :
      Trim(unitType \o <<" ">> \o unitNumber)))

\* parseStreetAddress(streetPart)
parseStreetAddress(streetPart) ==
  IF streetPart = <<>> THEN [number |-> Null, street |-> Null, unit |-> Null]
  ELSE
    With(UnitMatch(streetPart), LAMBDA unitMatch :
      With(IF unitMatch.pos = 0 THEN streetPart
           ELSE Trim(Before(streetPart, unitMatch.pos)), LAMBDA working :
        With(NumberMatch(working), LAMBDA numberMatch :
          [number |-> IF numberMatch.len = 0 THEN Null
                      ELSE Some(numberMatch.number),
           street |-> normalizeStreetName(
                        IF numberMatch.len = 0 THEN working
                        ELSE From(working, numberMatch.len + 1)),
           unit   |-> IF unitMatch.pos = 0 THEN Null
                      ELSE Some(UnitOf(unitMatch))])))

\* .replace(new RegExp(`\\b${t}\\b`, 'i'), '') : removes the first whole-word
\* occurrence of t, ignoring case
RemoveWord(s, t) ==
  With(FirstOf({q \in 1..Len(s) :
                  /\ WordBoundary(s, q)
                  /\ MatchAtI(s, q, t)
                  /\ WordBoundary(s, q + Len(t))}), LAMBDA p :
    IF p = 0 \/ t = <<>> THEN s ELSE Before(s, p) \o From(s, p + Len(t)))

\* .replace(/\b\d{5}(-\d{4})?\b/, '')
RemoveZip(s) ==
  With(ZipMatchPos(s), LAMBDA p :
    IF p = 0 THEN s ELSE Before(s, p) \o From(s, p + ZipMatchLen(s, p)))

\* the loop of extractCity over Object.entries(US_STATES), from entry i on
RECURSIVE RemoveStates(_, _)
RemoveStates(s, i) ==
  IF i > Len(US_STATES) THEN s
  ELSE RemoveStates(RemoveWord(RemoveWord(s, US_STATES[i][1]), US_STATES[i][2]),
                    i + 1)

IsCommaOrSpace(c) == c = "," \/ IsSpace(c)

\* .replace(/[,\s]+$/, '')
RECURSIVE StripTrailingCommas(_)
StripTrailingCommas(s) ==
  IF s # <<>> /\ IsCommaOrSpace(s[Len(s)])
  THEN StripTrailingCommas(SubSeq(s, 1, Len(s) - 1))
  ELSE s

\* .replace(/^[,\s]+/, '')
StripLeadingCommas(s) == From(s, RunEnd(s, 1, IsCommaOrSpace))

cleanCityName(city) ==
  IF city = <<>> THEN Null
  ELSE With(StripLeadingCommas(StripTrailingCommas(Trim(city))), LAMBDA cleaned :
         IF cleaned = <<>> THEN Null
         ELSE With(SplitSpaces(cleaned), LAMBDA words :
                Some(Join([i \in 1..Len(words) |-> Capitalize(words[i])],
                          <<" ">>))))

\* extractCity(part, knownState): knownState is the parsed state or Null
extractCity(part, knownState) ==
  IF part = <<>> THEN Null
  ELSE cleanCityName(RemoveStates(RemoveZip(
         IF Truthy(knownState) THEN RemoveWord(part, knownState[1]) ELSE part), 1))

\* The argument of parseAddress: a string, or a value that is not a string
StringInput(text) == [kind |-> "string", text |-> text]

NonStringInput(kind) == [kind |-> kind, text |-> <<>>]

\* the city that parseAddress takes from the comma-separated parts
CityOf(parts, state) ==
  With(IF Len(parts) >= 2 THEN extractCity(parts[2], state) ELSE Null,
       LAMBDA cityResult :
    IF Len(parts) >= 3 /\ ~Truthy(cityResult) THEN cleanCityName(parts[2])
    ELSE cityResult)

\* normalized.split(',').map((p) => p.trim())
PartsOf(normalized) ==
  With(SplitOn(normalized, ","), LAMBDA rawParts :
    [i \in 1..Len(rawParts) |-> Trim(rawParts[i])])

\* parseAddress(addressString): Null, or Some(ParsedAddress)
parseAddress(addressString) ==
  IF addressString.kind # "string" \/ addressString.text = <<>> THEN Null
  ELSE
    With(NormalizeInput(addressString.text), LAMBDA normalized :
      With(extractState(normalized), LAMBDA stateResult :
        With(IF stateResult # Null THEN Some(stateResult[1].abbreviation) ELSE Null,
             LAMBDA state :
          With(PartsOf(normalized), LAMBDA parts :
            With(parseStreetAddress(parts[1]), LAMBDA streetResult :
              Some([streetNumber |-> streetResult.number,
                    street       |-> streetResult.street,
                    unit         |-> streetResult.unit,
                    city         |-> CityOf(parts, state),
                    state        |-> state,
                    zipCode      |-> ZipOf(normalized),
                    raw          |-> addressString.text]))))))

\* isValidZipCode: /^\d{5}(-\d{4})?$/
isValidZipCode(zip) ==
  /\ Truthy(zip)
  /\ \/ Len(zip[1]) = 5 /\ AllDigits(zip[1], 1, 5)
     \/ /\ Len(zip[1]) = 10
        /\ AllDigits(zip[1], 1, 5)
        /\ zip[1][6] = "-"
        /\ AllDigits(zip[1], 7, 4)

-----------------------------------------------------------------------------
(* services/geocodingService.js *)

\* getStateAbbreviation's stateMap: lower-case state name -> abbreviation
stateMap ==
  << <<<<"a","l","a","b","a","m","a">>, <<"A","L">>>>,
     <<<<"a","l","a","s","k","a">>, <<"A","K">>>>,
     <<<<"a","r","i","z","o","n","a">>, <<"A","Z">>>>,
     <<<<"a","r","k","a","n","s","a","s">>, <<"A","R">>>>,
     <<<<"c","a","l","i","f","o","r","n","i","a">>, <<"C","A">>>>,
     <<<<"c","o","l","o","r","a","d","o">>, <<"C","O">>>>,
     <<<<"c","o","n","n","e","c","t","i","c","u","t">>, <<"C","T">>>>,
     <<<<"d","e","l","a","w","a","r","e">>, <<"D","E">>>>,
     <<<<"f","l","o","r","i","d","a">>, <<"F","L">>>>,
     <<<<"g","e","o","r","g","i","a">>, <<"G","A">>>>,
     <<<<"h","a","w","a","i","i">>, <<"H","I">>>>,
     <<<<"i","d","a","h","o">>, <<"I","D">>>>,
     <<<<"i","l","l","i","n","o","i","s">>, <<"I","L">>>>,
     <<<<"i","n","d","i","a","n","a">>, <<"I","N">>>>,
     <<<<"i","o","w","a">>, <<"I","A">>>>,
     <<<<"k","a","n","s","a","s">>, <<"K","S">>>>,
     <<<<"k","e","n","t","u","c","k","y">>, <<"K","Y">>>>,
     <<<<"l","o","u","i","s","i","a","n","a">>, <<"L","A">>>>,
     <<<<"m","a","i","n","e">>, <<"M","E">>>>,
     <<<<"m","a","r","y","l","a","n","d">>, <<"M","D">>>>,
     <<<<"m","a","s","s","a","c","h","u","s","e","t","t","s">>, <<"M","A">>>>,
     <<<<"m","i","c","h","i","g","a","n">>, <<"M","I">>>>,
     <<<<"m","i","n","n","e","s","o","t","a">>, <<"M","N">>>>,
     <<<<"m","i","s","s","i","s","s","i","p","p","i">>, <<"M","S">>>>,
     <<<<"m","i","s","s","o","u","r","i">>, <<"M","O">>>>,
     <<<<"m","o","n","t","a","n","a">>, <<"M","T">>>>,
     <<<<"n","e","b","r","a","s","k","a">>, <<"N","E">>>>,
     <<<<"n","e","v","a","d","a">>, <<"N","V">>>>,
     <<<<"n","e","w"," ","h","a","m","p","s","h","i","r","e">>, <<"N","H">>>>,
     <<<<"n","e","w"," ","j","e","r","s","e","y">>, <<"N","J">>>>,
     <<<<"n","e","w"," ","m","e","x","i","c","o">>, <<"N","M">>>>,
     <<<<"n","e","w"," ","y","o","r","k">>, <<"N","Y">>>>,
     <<<<"n","o","r","t","h"," ","c","a","r","o","l","i","n","a">>, <<"N","C">>>>,
     <<<<"n","o","r","t","h"," ","d","a","k","o","t","a">>, <<"N","D">>>>,
     <<<<"o","h","i","o">>, <<"O","H">>>>,
     <<<<"o","k","l","a","h","o","m","a">>, <<"O","K">>>>,
     <<<<"o","r","e","g","o","n">>, <<"O","R">>>>,
     <<<<"p","e","n","n","s","y","l","v","a","n","i","a">>, <<"P","A">>>>,
     <<<<"r","h","o","d","e"," ","i","s","l","a","n","d">>, <<"R","I">>>>,
     <<<<"s","o","u","t","h"," ","c","a","r","o","l","i","n","a">>, <<"S","C">>>>,
     <<<<"s","o","u","t","h"," ","d","a","k","o","t","a">>, <<"S","D">>>>,
     <<<<"t","e","n","n","e","s","s","e","e">>, <<"T","N">>>>,
     <<<<"t","e","x","a","s">>, <<"T","X">>>>,
     <<<<"u","t","a","h">>, <<"U","T">>>>,
     <<<<"v","e","r","m","o","n","t">>, <<"V","T">>>>,
     <<<<"v","i","r","g","i","n","i","a">>, <<"V","A">>>>,
     <<<<"w","a","s","h","i","n","g","t","o","n">>, <<"W","A">>>>,
     <<<<"w","e","s","t"," ","v","i","r","g","i","n","i","a">>, <<"W","V">>>>,
     <<<<"w","i","s","c","o","n","s","i","n">>, <<"W","I">>>>,
     <<<<"w","y","o","m","i","n","g">>, <<"W","Y">>>>,
     <<<<"d","i","s","t","r","i","c","t"," ","o","f"," ","c","o","l","u","m","b","i","a">>, <<"D","C">>>> >>

\* getStateAbbreviation(stateName)
getStateAbbreviation(stateName) ==
  IF ~Truthy(stateName) THEN Null
  ELSE IF Len(stateName[1]) = 2 THEN Some(ToUpper(stateName[1]))
  ELSE IF Truthy(Lookup(stateMap, ToLower(stateName[1])))
       THEN Lookup(stateMap, ToLower(stateName[1]))
       ELSE stateName

\* a || b for optional strings
Or(a, b) == IF Truthy(a) THEN a ELSE b

\* Math.round(Math.min(100, score * (0.5 + importance * 0.5))) for an importance
\* of eighths/8: the product is score * (8 + eighths) / 16, and Math.round
\* rounds a half upwards
Adjusted(score, eighths) ==
  LET sixteenths == score * (8 + eighths)
      capped     == IF sixteenths > 100 * 16 THEN 100 * 16 ELSE sixteenths
  IN  (capped + 8) \div 16

\* calculateConfidence(result); result.importance is Null or Some(eighths)
calculateConfidence(result) ==
  LET addr  == result.address
      score == (IF Truthy(addr.house_number) THEN 25 ELSE 0)
             + (IF Truthy(addr.road) \/ Truthy(addr.street) THEN 25 ELSE 0)
             + (IF Truthy(addr.city) \/ Truthy(addr.town) \/ Truthy(addr.village)
                THEN 20 ELSE 0)
             + (IF Truthy(addr.state) THEN 15 ELSE 0)
             + (IF Truthy(addr.postcode) THEN 15 ELSE 0)
  IN  IF result.importance # Null /\ result.importance[1] # 0
      THEN Adjusted(score, result.importance[1])
      ELSE score

\* the value of a run of decimal digits
RECURSIVE DigitsValue(_)
DigitsValue(s) ==
  IF s = <<>> THEN 0
  ELSE 10 * DigitsValue(SubSeq(s, 1, Len(s) - 1))
       + (CHOOSE d \in 0..9 :
            <<"0","1","2","3","4","5","6","7","8","9">>[d + 1] = s[Len(s)])

\* parseFloat(text) for a text without a fraction: the number that the longest
\* prefix [+-]?\d+ denotes (after leading white space), Null (NaN) without one
parseFloat(text) ==
  LET t    == TrimLeft(text)
      sign == t # <<>> /\ t[1] \in {"-", "+"}
      from == IF sign THEN 2 ELSE 1
      to   == RunEnd(t, from, IsDigit)
  IN  IF to = from THEN Null
      ELSE Some((IF sign /\ t[1] = "-" THEN -1 ELSE 1)
                * DigitsValue(SubSeq(t, from, to - 1)))

\* normalizeNominatimResult(result): the VerifiedAddress
normalizeNominatimResult(result) ==
  LET addr == result.address
  IN  [streetNumber |-> OrNull(addr.house_number),
       street       |-> OrNull(Or(addr.road, Or(addr.pedestrian, addr.street))),
       city         |-> OrNull(Or(addr.city, Or(addr.town, Or(addr.village,
                               Or(addr.municipality, addr.hamlet))))),
       state        |-> getStateAbbreviation(addr.state),
       zipCode      |-> OrNull(addr.postcode),
       country      |-> IF Truthy(addr.country_code)
                        THEN ToUpper(addr.country_code[1])
                        ELSE <<"U","S">>,
       latitude     |-> parseFloat(result.lat),
       longitude    |-> parseFloat(result.lon),
       confidence   |-> calculateConfidence(result),
       displayName  |-> result.display_name,
       placeType    |-> result.type,
       importance   |-> result.importance]

\* What a call of the verifier meets: fetch rejects ("throw"), the response is
\* not ok ("httpError"), the result list is empty ("notFound"), or it holds a
\* result ("found")
OutcomeKinds == {"throw", "httpError", "notFound", "found"}

\* the body of the try block of geocodeAddress / structuredSearch: what it
\* returns, or that it threw
lookupBody(outcome) ==
  IF outcome.kind = "throw" THEN [threw |-> TRUE, value |-> Null]
  ELSE IF outcome.kind = "httpError" THEN [threw |-> FALSE, value |-> Null]
  ELSE IF outcome.kind = "notFound" THEN [threw |-> FALSE, value |-> Null]
  ELSE [threw |-> FALSE, value |-> Some(normalizeNominatimResult(outcome.result[1]))]

\* geocodeAddress without its try/catch: the exception leaves the function
geocodeAddressNoCatch(outcome) == lookupBody(outcome)

\* geocodeAddress(address): the catch block turns every exception into null
geocodeAddress(outcome) ==
  IF lookupBody(outcome).threw THEN [threw |-> FALSE, value |-> Null]
  ELSE lookupBody(outcome)

\* structuredSearch(components): the catch block turns every exception into null
structuredSearch(outcome) ==
  IF lookupBody(outcome).threw THEN [threw |-> FALSE, value |-> Null]
  ELSE lookupBody(outcome)

-----------------------------------------------------------------------------
(* services/addressValidationService.js *)

\* utils/constants.js VALIDATION_STATUS
VALID == "valid"

CORRECTED == "corrected"

UNVERIFIABLE == "unverifiable"

INVALID == "invalid"

\* the threshold of determineStatus
ConfidenceThreshold == 70

\* hasMinimumComponents that is satisfied by any parsed address
hasMinimumComponentsAlways(parsed) == TRUE

\* hasMinimumComponents that is satisfied by a ZIP code as well
hasMinimumComponentsOrZip(parsed) ==
  Truthy(parsed.street) \/ Truthy(parsed.city) \/ Truthy(parsed.zipCode)

\* hasMinimumComponents(parsed)
hasMinimumComponents(parsed) == Truthy(parsed.street) \/ Truthy(parsed.city)

IsAlnumLower(c) == IsLower(c) \/ IsDigit(c)

\* normalizeForComparison(str): lower case without the characters outside [a-z0-9]
normalizeForComparison(str) ==
  IF ~Truthy(str) THEN <<>>
  ELSE SelectSeq(ToLower(str[1]), IsAlnumLower)

\* normalizeZip that keeps the +4 extension
normalizeZipKeep(zip) == IF ~Truthy(zip) THEN <<>> ELSE zip[1]

\* normalizeZip(zip): .replace(/-\d{4}$/, '')
normalizeZip(zip) ==
  IF ~Truthy(zip) THEN <<>>
  ELSE LET z == zip[1]
           n == Len(z)
       IN  IF n >= 5 /\ z[n - 4] = "-" /\ AllDigits(z, n - 3, 4)
           THEN SubSeq(z, 1, n - 5)
           ELSE z

\* x?.toUpperCase()
UpperOpt(o) == IF o = Null THEN Null ELSE Some(ToUpper(o[1]))

Correction(field, parsed, geocoded) ==
  [field |-> field, original |-> parsed[field], corrected |-> geocoded[field]]

\* the corrections that determineStatus pushes, field by field
corrections(parsed, geocoded) ==
  (IF /\ Truthy(geocoded.streetNumber)
      /\ parsed.streetNumber # geocoded.streetNumber
   THEN <<Correction("streetNumber", parsed, geocoded)>> ELSE <<>>)
  \o
  (IF /\ Truthy(geocoded.street)
      /\ normalizeForComparison(parsed.street) # normalizeForComparison(geocoded.street)
   THEN <<Correction("street", parsed, geocoded)>> ELSE <<>>)
  \o
  (IF /\ Truthy(geocoded.city)
      /\ normalizeForComparison(parsed.city) # normalizeForComparison(geocoded.city)
   THEN <<Correction("city", parsed, geocoded)>> ELSE <<>>)
  \o
  (IF /\ Truthy(geocoded.state)
      /\ UpperOpt(parsed.state) # UpperOpt(geocoded.state)
   THEN <<Correction("state", parsed, geocoded)>> ELSE <<>>)
  \o
  (IF /\ Truthy(geocoded.zipCode)
      /\ normalizeZip(parsed.zipCode) # normalizeZip(geocoded.zipCode)
   THEN <<Correction("zipCode", parsed, geocoded)>> ELSE <<>>)

\* determineStatus that reports every disagreement as a correction, whatever
\* the confidence
determineStatusNoThreshold(parsed, geocoded) ==
  LET cs == corrections(parsed, geocoded)
  IN  [status      |-> IF Len(cs) = 0 THEN VALID ELSE CORRECTED,
       corrections |-> cs]

\* determineStatus with the threshold compared by > instead of >=
determineStatusStrict(parsed, geocoded) ==
  LET cs == corrections(parsed, geocoded)
  IN  [status      |-> IF Len(cs) = 0 THEN VALID
                       ELSE IF geocoded.confidence > ConfidenceThreshold
                            THEN CORRECTED
                            ELSE UNVERIFIABLE,
       corrections |-> cs]

\* determineStatus(parsed, geocoded)
determineStatus(parsed, geocoded) ==
  LET cs == corrections(parsed, geocoded)
  IN  [status      |-> IF Len(cs) = 0 THEN VALID
                       ELSE IF geocoded.confidence >= ConfidenceThreshold
                            THEN CORRECTED
                            ELSE UNVERIFIABLE,
       corrections |-> cs]

\* formatAddress(components, unit)
formatAddress(components, unit) ==
  LET streetParts ==
          (IF Truthy(components.streetNumber) THEN <<components.streetNumber[1]>>
           ELSE <<>>)
          \o (IF Truthy(components.street) THEN <<components.street[1]>> ELSE <<>>)
          \o (IF Truthy(unit) THEN <<unit[1]>> ELSE <<>>)
      cityPart ==
          IF Truthy(components.city)
          THEN <<components.city[1]
                 \o (IF Truthy(components.state) THEN <<",">> ELSE <<>>)>>
          ELSE <<>>
      cityStateZip ==
          cityPart
          \o (IF Truthy(components.state) THEN <<components.state[1]>> ELSE <<>>)
          \o (IF Truthy(components.zipCode) THEN <<components.zipCode[1]>> ELSE <<>>)
      parts ==
          (IF Len(streetParts) > 0 THEN <<Join(streetParts, <<" ">>)>> ELSE <<>>)
          \o (IF Len(cityStateZip) > 0 THEN <<Join(cityStateZip, <<" ">>)>> ELSE <<>>)
  IN  OrNull(Some(Join(parts, <<",", " ">>)))

\* createResponse that keeps the street number the request gave
createResponseKeepNumber(status, parsed, geocoded, issues, cs) ==
  LET unit == IF parsed # Null THEN OrNull(parsed[1].unit) ELSE Null
  IN  [status      |-> status,
       input       |-> IF parsed # Null THEN OrNull(Some(parsed[1].raw)) ELSE Null,
       issues      |-> IF Len(issues) > 0 THEN Some(issues) ELSE Null,
       corrections |-> IF Len(cs) > 0 THEN Some(cs) ELSE Null,
       address     |->
         IF geocoded # Null
         THEN Some([streetNumber |-> IF parsed # Null THEN parsed[1].streetNumber
                                     ELSE geocoded[1].streetNumber,
                    street       |-> geocoded[1].street,
                    unit         |-> unit,
                    city         |-> geocoded[1].city,
                    state        |-> geocoded[1].state,
                    zipCode      |-> geocoded[1].zipCode,
                    formatted    |-> formatAddress(geocoded[1], unit)])
         ELSE IF parsed # Null /\ status = UNVERIFIABLE
         THEN Some([streetNumber |-> parsed[1].streetNumber,
                    street       |-> parsed[1].street,
                    unit         |-> parsed[1].unit,
                    city         |-> parsed[1].city,
                    state        |-> parsed[1].state,
                    zipCode      |-> parsed[1].zipCode,
                    formatted    |-> Null])
         ELSE Null,
       coordinates |-> IF geocoded # Null
                       THEN Some([latitude  |-> geocoded[1].latitude,
                                  longitude |-> geocoded[1].longitude])
                       ELSE Null,
       confidence  |-> IF geocoded # Null THEN Some(geocoded[1].confidence)
                       ELSE Null]

\* createResponse that formats the parsed components of an unverifiable address
createResponseFormatParsed(status, parsed, geocoded, issues, cs) ==
  LET unit == IF parsed # Null THEN OrNull(parsed[1].unit) ELSE Null
  IN  [status      |-> status,
       input       |-> IF parsed # Null THEN OrNull(Some(parsed[1].raw)) ELSE Null,
       issues      |-> IF Len(issues) > 0 THEN Some(issues) ELSE Null,
       corrections |-> IF Len(cs) > 0 THEN Some(cs) ELSE Null,
       address     |->
         IF geocoded # Null
         THEN Some([streetNumber |-> geocoded[1].streetNumber,
                    street       |-> geocoded[1].street,
                    unit         |-> unit,
                    city         |-> geocoded[1].city,
                    state        |-> geocoded[1].state,
                    zipCode      |-> geocoded[1].zipCode,
                    formatted    |-> formatAddress(geocoded[1], unit)])
         ELSE IF parsed # Null /\ status = UNVERIFIABLE
         THEN Some([streetNumber |-> parsed[1].streetNumber,
                    street       |-> parsed[1].street,
                    unit         |-> parsed[1].unit,
                    city         |-> parsed[1].city,
                    state        |-> parsed[1].state,
                    zipCode      |-> parsed[1].zipCode,
                    formatted    |-> formatAddress(parsed[1], parsed[1].unit)])
         ELSE Null,
       coordinates |-> IF geocoded # Null
                       THEN Some([latitude  |-> geocoded[1].latitude,
                                  longitude |-> geocoded[1].longitude])
                       ELSE Null,
       confidence  |-> IF geocoded # Null THEN Some(geocoded[1].confidence)
                       ELSE Null]

\* createResponse(status, parsed, geocoded, issues, corrections): parsed and
\* geocoded are Null or Some(record); the lists are sequences
createResponse(status, parsed, geocoded, issues, cs) ==
  LET unit == IF parsed # Null THEN OrNull(parsed[1].unit) ELSE Null
  IN  [status      |-> status,
       input       |-> IF parsed # Null THEN OrNull(Some(parsed[1].raw)) ELSE Null,
       issues      |-> IF Len(issues) > 0 THEN Some(issues) ELSE Null,
       corrections |-> IF Len(cs) > 0 THEN Some(cs) ELSE Null,
       address     |->
         IF geocoded # Null
         THEN Some([streetNumber |-> geocoded[1].streetNumber,
                    street       |-> geocoded[1].street,
                    unit         |-> unit,
                    city         |-> geocoded[1].city,
                    state        |-> geocoded[1].state,
                    zipCode      |-> geocoded[1].zipCode,
                    formatted    |-> formatAddress(geocoded[1], unit)])
         ELSE IF parsed # Null /\ status = UNVERIFIABLE
         THEN Some([streetNumber |-> parsed[1].streetNumber,
                    street       |-> parsed[1].street,
                    unit         |-> parsed[1].unit,
                    city         |-> parsed[1].city,
                    state        |-> parsed[1].state,
                    zipCode      |-> parsed[1].zipCode,
                    formatted    |-> Null])
         ELSE Null,
       coordinates |-> IF geocoded # Null
                       THEN Some([latitude  |-> geocoded[1].latitude,
                                  longitude |-> geocoded[1].longitude])
                       ELSE Null,
       confidence  |-> IF geocoded # Null THEN Some(geocoded[1].confidence)
                       ELSE Null]

\* an entry of the issues list: the message and the value interpolated into it
Issue(message, value) == [message |-> message, value |-> value]

\* handleUnverifiableAddress that asks for a street and a city
handleUnverifiableAddressBoth(parsed) ==
  createResponse(IF Truthy(parsed.street) /\ Truthy(parsed.city)
                 THEN UNVERIFIABLE ELSE INVALID,
                 Some(parsed), Null,
                 <<Issue("Street number could not be determined", Null)>>, <<>>)

\* handleUnverifiableAddress that looks at the city before the street
handleUnverifiableAddressCityFirst(parsed) ==
  LET issues ==
          (IF ~Truthy(parsed.streetNumber)
           THEN <<Issue("Street number could not be determined", Null)>> ELSE <<>>)
          \o (IF ~Truthy(parsed.city)
              THEN <<Issue("City could not be determined", Null)>> ELSE <<>>)
          \o (IF ~Truthy(parsed.street)
              THEN <<Issue("Street name could not be determined", Null)>> ELSE <<>>)
          \o (IF ~Truthy(parsed.state)
              THEN <<Issue("State could not be determined", Null)>>
              ELSE IF ~isValidState(parsed.state)
                   THEN <<Issue("Invalid state: ", parsed.state)>> ELSE <<>>)
          \o (IF ~Truthy(parsed.zipCode)
              THEN <<Issue("ZIP code could not be determined", Null)>>
              ELSE IF ~isValidZipCode(parsed.zipCode)
                   THEN <<Issue("Invalid ZIP code format: ", parsed.zipCode)>>
                   ELSE <<>>)
      hasBasicComponents == Truthy(parsed.street) \/ Truthy(parsed.city)
  IN  createResponse(IF hasBasicComponents THEN UNVERIFIABLE ELSE INVALID,
                     Some(parsed), Null, issues, <<>>)

\* handleUnverifiableAddress(parsed)
handleUnverifiableAddress(parsed) ==
  LET issues ==
          (IF ~Truthy(parsed.streetNumber)
           THEN <<Issue("Street number could not be determined", Null)>> ELSE <<>>)
          \o (IF ~Truthy(parsed.street)
              THEN <<Issue("Street name could not be determined", Null)>> ELSE <<>>)
          \o (IF ~Truthy(parsed.city)
              THEN <<Issue("City could not be determined", Null)>> ELSE <<>>)
          \o (IF ~Truthy(parsed.state)
              THEN <<Issue("State could not be determined", Null)>>
              ELSE IF ~isValidState(parsed.state)
                   THEN <<Issue("Invalid state: ", parsed.state)>> ELSE <<>>)
          \o (IF ~Truthy(parsed.zipCode)
              THEN <<Issue("ZIP code could not be determined", Null)>>
              ELSE IF ~isValidZipCode(parsed.zipCode)
                   THEN <<Issue("Invalid ZIP code format: ", parsed.zipCode)>>
                   ELSE <<>>)
      hasBasicComponents == Truthy(parsed.street) \/ Truthy(parsed.city)
  IN  createResponse(IF hasBasicComponents THEN UNVERIFIABLE ELSE INVALID,
                     Some(parsed), Null, issues, <<>>)

\* respond without the check of the country
respondAnyCountry(parsed, finalResult) ==
  IF finalResult = Null THEN handleUnverifiableAddress(parsed)
  ELSE createResponse(determineStatus(parsed, finalResult[1]).status,
                      Some(parsed), finalResult, <<>>,
                      determineStatus(parsed, finalResult[1]).corrections)

\* validateAddress from step 4 on: the response for the parsed address and the
\* final result of the lookups (Null or Some(VerifiedAddress))
respond(parsed, finalResult) ==
  IF finalResult = Null THEN handleUnverifiableAddress(parsed)
  ELSE IF finalResult[1].country # <<>> /\ finalResult[1].country # <<"U","S">>
  THEN createResponse(INVALID, Some(parsed), finalResult,
         <<Issue("Address is not in the United States. This service only validates US addresses.", Null)>>,
         <<>>)
  ELSE createResponse(determineStatus(parsed, finalResult[1]).status,
                      Some(parsed), finalResult, <<>>,
                      determineStatus(parsed, finalResult[1]).corrections)

-----------------------------------------------------------------------------
(* The requests and the verifier's answers the model explores *)

\* the values of req.body.address handed to validateAddress
Inputs ==
  { StringInput(<<"1","2"," ","M","a","i","n"," ","S","t","r","e","e","t",","," ","B","o","s","t","o","n",","," ","M","A"," ","0","2","1","0","1","-","1","2","3","4">>),
    StringInput(<<"1","2"," ","M","a","i","n"," ","S","t",","," ","B","o","s","t","o","n",","," ","M","A"," ","0","2","1","0","1">>),
    StringInput(<<"1","2"," ","O","a","k"," ","A","v","e"," ","A","p","t"," ","2","B",",","s","a","l","e","m">>),
    StringInput(<<"M","a","i","n"," ","S","t","r","e","e","t">>),
    StringInput(<<","," ","B","o","s","t","o","n">>),
    StringInput(<<","," ","M","A"," ","0","2","1","0","1">>),
    StringInput(<<"9"," ","E","l","m"," ","S","t","r","e","e","t",","," ","S","a","l","e","m",","," ","Z","Z"," ","0","2","1","1","0">>),
    StringInput(<<" "," ">>),
    StringInput(<<>>),
    NonStringInput("null") }

HouseNumbers == {Null, Some(<<"1","2">>), Some(<<"1","4">>)}

Roads == {Null, Some(<<"m","a","i","n","-","s","t","r","e","e","t">>), Some(<<"E","l","m"," ","S","t","r","e","e","t">>)}

Cities == {Null, Some(<<"B","O","S","T","O","N">>), Some(<<"S","a","l","e","m">>)}

StateNames == {Null, Some(<<"m","a">>), Some(<<"N","e","w"," ","Y","o","r","k">>)}

Postcodes == {Null, Some(<<"0","2","1","0","1">>), Some(<<"0","2","1","1","0">>)}

CountryCodes == {Null, Some(<<"u","s">>), Some(<<"c","a">>)}

\* result.importance in eighths
Importances == {Null, Some(4)}

\* the entries of Nominatim's result list: every combination of the usual
\* address fields, and two results that carry the alternative fields
RawResults ==
  { [address |-> [house_number |-> h, road |-> r, pedestrian |-> Null,
                  street |-> Null, city |-> c, town |-> Null, village |-> Null,
                  municipality |-> Null, hamlet |-> Null, state |-> s,
                  postcode |-> z, country_code |-> cc],
     lat |-> <<"4","2">>, lon |-> <<"-","7","1">>, importance |-> imp,
     display_name |-> "display name", type |-> "house"] :
      h \in HouseNumbers, r \in Roads, c \in Cities, s \in StateNames,
      z \in Postcodes, cc \in CountryCodes, imp \in Importances }
  \cup
  { [address |-> [house_number |-> Some(<<>>), road |-> Null,
                  pedestrian |-> Some(<<"M","a","i","n"," ","S","t","r","e","e","t">>),
                  street |-> Null, city |-> Null, town |-> Some(<<"B","o","s","t","o","n">>),
                  village |-> Null, municipality |-> Null, hamlet |-> Null,
                  state |-> Some(<<"M","a","s","s","a","c","h","u","s","e","t","t","s">>),
                  postcode |-> Some(<<"0","2","1","0","1","-","9","9","9","9">>),
                  country_code |-> Some(<<"u","s">>)],
     lat |-> <<"n","o","r","t","h">>, lon |-> <<" ","7","1">>, importance |-> Some(8),
     display_name |-> "display name", type |-> "pedestrian"],
    [address |-> [house_number |-> Some(<<"1","2">>), road |-> Null,
                  pedestrian |-> Null, street |-> Some(<<"M","a","i","n"," ","S","t","r","e","e","t">>),
                  city |-> Null, town |-> Null, village |-> Null,
                  municipality |-> Null, hamlet |-> Some(<<"B","o","s","t","o","n">>),
                  state |-> Some(<<"O","n","t","a","r","i","o">>), postcode |-> Null,
                  country_code |-> Some(<<"C","A">>)],
     lat |-> <<"4","3">>, lon |-> <<"-","7","9">>, importance |-> Some(0),
     display_name |-> "display name", type |-> "hamlet"] }

\* what one call of the verifier can meet
Outcomes ==
  {[kind |-> k, result |-> Null] : k \in OutcomeKinds \ {"found"}}
  \cup {[kind |-> "found", result |-> Some(r)] : r \in RawResults}

-----------------------------------------------------------------------------
(* validateAddress as a process: one request, suspended at each await *)

VARIABLES
  pc,            \* "start", "geocoding", "structured", "done" or "rejected"
  addressInput,  \* the argument of validateAddress
  parsed,        \* parseAddress(addressInput): Null or Some(ParsedAddress)
  calls,         \* the verifier functions called so far, in order
  geoOutcome,    \* what the free-text lookup met ("none" before it returns)
  structOutcome, \* what the structured search met ("none" before it returns)
  geocoded,      \* the value of geocodeAddress: Null or Some(VerifiedAddress)
  structured,    \* the value of structuredSearch: Null or Some(VerifiedAddress)
  finalResult,   \* the verified address handed to the reconciler
  response       \* the ValidationResult returned: Null until the return

vars == <<pc, addressInput, parsed, calls, geoOutcome, structOutcome,
          geocoded, structured, finalResult, response>>

Init ==
  /\ pc = "start"
  /\ addressInput \in Inputs
  /\ parsed = Null
  /\ calls = <<>>
  /\ geoOutcome = "none"
  /\ structOutcome = "none"
  /\ geocoded = Null
  /\ structured = Null
  /\ finalResult = Null
  /\ response = Null

\* validateAddress up to its first await: parse, and either return INVALID or
\* call geocodeAddress
Start ==
  /\ pc = "start"
  /\ parsed' = parseAddress(addressInput)
  /\ IF parsed' = Null
     THEN /\ response' = Some(createResponse(INVALID, Null, Null,
                            <<Issue("Could not parse address input", Null)>>, <<>>))
          /\ calls' = calls
          /\ pc' = "done"
     ELSE /\ response' = response
          /\ calls' = Append(calls, "geocodeAddress")
          /\ pc' = "geocoding"
  /\ UNCHANGED <<addressInput, geoOutcome, structOutcome, geocoded, structured,
                 finalResult>>

\* geocodeAddress settles: validateAddress resumes, and either calls
\* structuredSearch or builds the response
GeocodeReturns ==
  /\ pc = "geocoding"
  /\ \E outcome \in Outcomes :
       LET r == geocodeAddress(outcome)
       IN  /\ geoOutcome' = outcome.kind
           /\ IF r.threw
              THEN /\ pc' = "rejected"
                   /\ UNCHANGED <<calls, geocoded, finalResult, response>>
              ELSE /\ geocoded' = r.value
                   /\ IF r.value = Null /\ hasMinimumComponents(parsed[1])
                      THEN /\ calls' = Append(calls, "structuredSearch")
                           /\ pc' = "structured"
                           /\ UNCHANGED <<finalResult, response>>
                      ELSE /\ finalResult' = r.value
                           /\ response' = Some(respond(parsed[1], r.value))
                           /\ calls' = calls
                           /\ pc' = "done"
  /\ UNCHANGED <<addressInput, parsed, structOutcome, structured>>

\* structuredSearch settles: validateAddress resumes and builds the response
StructuredReturns ==
  /\ pc = "structured"
  /\ \E outcome \in Outcomes :
       LET r == structuredSearch(outcome)
       IN  /\ structOutcome' = outcome.kind
           /\ IF r.threw
              THEN /\ pc' = "rejected"
                   /\ UNCHANGED <<structured, finalResult, response>>
              ELSE /\ structured' = r.value
                   /\ finalResult' = r.value
                   /\ response' = Some(respond(parsed[1], r.value))
                   /\ pc' = "done"
  /\ UNCHANGED <<addressInput, parsed, calls, geoOutcome, geocoded>>

Next == Start \/ GeocodeReturns \/ StructuredReturns

Spec == Init /\ [][Next]_vars

-----------------------------------------------------------------------------
(* The functions of the parser and of the verifier called on their own:     *)
(* addressInput is the call [fn, arg], response the value returned          *)

\* the words street names are made of: directions, street types and ordinary
\* words, abbreviated or not, in several cases, with and without a period
Vocabulary ==
  { <<"n">>,
    <<"N",".">>,
    <<"s","t">>,
    <<"A","v","e",".">>,
    <<"m","a","i","n">>,
    <<"o","A","K">>,
    <<"S","t","r","e","e","t">>,
    <<"N","o","r","t","h">> }

\* the greatest number of words of a street name
MaxWords == 3

\* the arguments of normalizeStreetName: the empty string and the street names
\* of 1 to MaxWords words
StreetNames ==
  {<<>>} \cup
  UNION {{Join(words, <<" ">>) : words \in [1..n -> Vocabulary]} : n \in 1..MaxWords}

SegmentNumbers ==
  { <<"4","5","6">>, <<"1","2","-","1","4">>, <<"2","2","1","B">> }

\* the name words of a street segment, with their normalized form
SegmentNames ==
  { [name |-> <<"O","a","k"," ","A","v","e">>, normalized |-> <<"O","a","k"," ","A","v","e","n","u","e">>],
    [name |-> <<"N"," ","M","a","i","n"," ","S","t">>, normalized |-> <<"N","o","r","t","h"," ","M","a","i","n"," ","S","t","r","e","e","t">>],
    [name |-> <<"B","r","o","a","d","w","a","y">>, normalized |-> <<"B","r","o","a","d","w","a","y">>],
    [name |-> <<"S","u","i","t","e"," ","L","a","n","e">>, normalized |-> <<"S","u","i","t","e"," ","L","a","n","e">>] }

\* the unit designators (# is the bare one)
SegmentDesignators ==
  { <<"A","p","t">>,
    <<"a","p","a","r","t","m","e","n","t">>,
    <<"S","U","I","T","E">>,
    <<"s","t","e">>,
    <<"U","n","i","t">>,
    <<"f","l","o","o","r">>,
    <<"F","l">>,
    <<"r","o","o","m">>,
    <<"r","m">>,
    <<"A","p","t",".">>,
    <<"#">> }

SegmentIdentifiers ==
  { <<"2","B">>, <<"1","0","0">>, <<"A">> }

\* a street segment "<number> <name words> <unit designator> <identifier>"
SegmentText(number, name, designator, identifier) ==
  number \o <<" ">> \o name \o <<" ">> \o designator \o <<" ">> \o identifier

\* the arguments of parseStreetAddress, with the components they are made of
StreetSegments ==
  { [number |-> n, name |-> m.name, normalized |-> m.normalized, designator |-> d,
     identifier |-> i, text |-> SegmentText(n, m.name, d, i)] :
      n \in SegmentNumbers, m \in SegmentNames, d \in SegmentDesignators,
      i \in SegmentIdentifiers }

\* result.importance of Nominatim, in eighths: 0, 1/8, 1/2 and 1
ImportanceWeights == {Some(0), Some(1), Some(4), Some(8)}

\* the results calculateConfidence is called on: each of house number, road,
\* city, state and postcode present or not, and an importance in [0, 1]
ConfidenceResults ==
  { [address |-> [house_number |-> h, road |-> r, street |-> Null, city |-> c,
                  town |-> Null, village |-> Null, state |-> s, postcode |-> z],
     importance |-> imp] :
      h \in {Null, Some(<<"1","2">>)}, r \in {Null, Some(<<"E","l","m">>)},
      c \in {Null, Some(<<"S","a","l","e","m">>)}, s \in {Null, Some(<<"M","A">>)},
      z \in {Null, Some(<<"0","2","1","1","0">>)}, imp \in ImportanceWeights }

ConfidenceFields == {"house_number", "road", "city", "state", "postcode"}

\* b is a with one more field present, or with a greater importance
OneStepAbove(a, b) ==
  \/ /\ a.importance = b.importance
     /\ \E f \in ConfidenceFields :
          /\ a.address[f] = Null
          /\ b.address[f] # Null
          /\ \A g \in ConfidenceFields \ {f} : a.address[g] = b.address[g]
  \/ /\ a.address = b.address
     /\ a.importance[1] < b.importance[1]

\* two results, the second one step above the first
ConfidencePairs ==
  {pair \in [lo : ConfidenceResults, hi : ConfidenceResults] :
     OneStepAbove(pair.lo, pair.hi)}

FnInit ==
  /\ pc = "call"
  /\ \/ addressInput \in [fn : {"normalizeStreetName"}, arg : StreetNames]
     \/ addressInput \in [fn : {"parseStreetAddress"}, arg : StreetSegments]
     \/ addressInput \in [fn : {"calculateConfidence"}, arg : ConfidencePairs]
  /\ parsed = Null
  /\ calls = <<>>
  /\ geoOutcome = "none"
  /\ structOutcome = "none"
  /\ geocoded = Null
  /\ structured = Null
  /\ finalResult = Null
  /\ response = Null

\* normalizeStreetName(x), and normalizeStreetName of what it returned
CallNormalizeStreetName ==
  /\ pc = "call"
  /\ addressInput.fn = "normalizeStreetName"
  /\ response' =
       With(normalizeStreetName(addressInput.arg), LAMBDA once :
         Some([once  |-> once,
               twice |-> IF once = Null THEN Null
                         ELSE normalizeStreetName(once[1])]))
  /\ pc' = "returned"
  /\ UNCHANGED <<addressInput, parsed, calls, geoOutcome, structOutcome, geocoded,
                 structured, finalResult>>

\* parseStreetAddress(streetPart)
CallParseStreetAddress ==
  /\ pc = "call"
  /\ addressInput.fn = "parseStreetAddress"
  /\ response' = Some(parseStreetAddress(addressInput.arg.text))
  /\ pc' = "returned"
  /\ UNCHANGED <<addressInput, parsed, calls, geoOutcome, structOutcome, geocoded,
                 structured, finalResult>>

\* calculateConfidence on the two results of a pair
CallCalculateConfidence ==
  /\ pc = "call"
  /\ addressInput.fn = "calculateConfidence"
  /\ response' = Some([lo |-> calculateConfidence(addressInput.arg.lo),
                       hi |-> calculateConfidence(addressInput.arg.hi)])
  /\ pc' = "returned"
  /\ UNCHANGED <<addressInput, parsed, calls, geoOutcome, structOutcome, geocoded,
                 structured, finalResult>>

FnNext ==
  CallNormalizeStreetName \/ CallParseStreetAddress \/ CallCalculateConfidence

FnSpec == FnInit /\ [][FnNext]_vars

-----------------------------------------------------------------------------
(* The claims *)

\* validateAddress has returned
Done == pc = "done"

\* the returned ValidationResult, the parsed address and the verified address
\* (meaningful where they are present)
Result == response[1]

Parsed == parsed[1]

Verified == finalResult[1]

\* the reconciler compared the parsed address with a verified US address
Reconciled ==
  /\ Done
  /\ parsed # Null
  /\ finalResult # Null
  /\ Verified.country = <<"U","S">>

Fields == <<"streetNumber", "street", "city", "state", "zipCode">>

IsAlnum(c) == IsLetter(c) \/ IsDigit(c)

\* The form in which the comparison rule of a field compares a value
\* (Null or Some(string)): streetNumber as it is, street and city without
\* their non-alphanumerics and in lower case, state in lower case, zipCode
\* without a trailing -NNNN
RuleForm(field, value) ==
  IF field = "streetNumber" THEN value
  ELSE IF field \in {"street", "city"}
  THEN (IF value = Null THEN Some(<<>>) ELSE Some(ToLower(SelectSeq(value[1], IsAlnum))))
  ELSE IF field = "state"
  THEN (IF value = Null THEN Null ELSE Some(ToLower(value[1])))
  ELSE IF value = Null THEN Some(<<>>)
  ELSE IF /\ Len(value[1]) >= 5
          /\ value[1][Len(value[1]) - 4] = "-"
          /\ \A i \in (Len(value[1]) - 3)..Len(value[1]) : IsDigit(value[1][i])
       THEN Some(SubSeq(value[1], 1, Len(value[1]) - 5))
       ELSE value

\* The field differs: the verified address has a value for it, and the parsed
\* value is not the same under the field's comparison rule
FieldDiffers(field, p, v) ==
  /\ v[field] # Null
  /\ RuleForm(field, p[field]) # RuleForm(field, v[field])

DifferingFields(p, v) == {i \in DOMAIN Fields : FieldDiffers(Fields[i], p, v)}

\* C1: for a verified US address the status is VALID when no field differs
\* (whatever the confidence), CORRECTED when a field differs and the confidence
\* is at least 70, UNVERIFIABLE when a field differs and the confidence is
\* below 70.
Thm_C1_StatusTable ==
  Reconciled =>
    /\ DifferingFields(Parsed, Verified) = {} => Result.status = VALID
    /\ (DifferingFields(Parsed, Verified) # {} /\ Verified.confidence >= 70)
         => Result.status = CORRECTED
    /\ (DifferingFields(Parsed, Verified) # {} /\ Verified.confidence < 70)
         => Result.status = UNVERIFIABLE

\* a field differs, the confidence is exactly 70, and the status is CORRECTED
Wit_C1_CorrectedAtThreshold ==
  /\ Reconciled
  /\ DifferingFields(Parsed, Verified) # {}
  /\ Verified.confidence = 70
  /\ Result.status = CORRECTED

\* C2: a verified address whose country is not "US" gives status INVALID,
\* whatever the parsed address, the confidence and the agreement of the fields.
Thm_C2_NonUsIsInvalid ==
  (Done /\ finalResult # Null /\ Verified.country # <<"U","S">>)
    => Result.status = INVALID

\* a Canadian result that agrees with the parsed address in every field and
\* has a confidence of at least 70
Wit_C2_AgreeingNonUs ==
  /\ Done
  /\ finalResult # Null
  /\ Verified.country = <<"C","A">>
  /\ DifferingFields(Parsed, Verified) = {}
  /\ Verified.streetNumber # Null
  /\ Verified.confidence >= 70
  /\ Result.status = INVALID

\* C3: when parsing succeeded and no verified address is available, the
\* status is UNVERIFIABLE if the parsed street or city is present, and INVALID
\* with a null address if both are absent.
Thm_C3_NoVerification ==
  (Done /\ parsed # Null /\ finalResult = Null) =>
    IF Parsed.street # Null \/ Parsed.city # Null
    THEN Result.status = UNVERIFIABLE
    ELSE Result.status = INVALID /\ Result.address = Null

\* no verified address, a city but no street: UNVERIFIABLE
Wit_C3_CityOnly ==
  /\ Done
  /\ parsed # Null
  /\ finalResult = Null
  /\ Parsed.street = Null
  /\ Parsed.city # Null
  /\ Result.status = UNVERIFIABLE

FailureKinds == {"throw", "httpError", "notFound"}

\* C4: whatever each call of the verifier meets, validateAddress is never
\* rejected: it is at its start, waits for exactly the lookup it called last,
\* or has returned a ValidationResult with one of the four statuses; when
\* every call made failed, the result is that of "no verification":
\* unverifiable or invalid, without coordinates, confidence or corrections.
Thm_C4_VerifierFailures ==
  /\ pc # "rejected"
  /\ pc \in {"start", "geocoding", "structured", "done"}
  /\ pc = "geocoding" => (calls = <<"geocodeAddress">> /\ geoOutcome = "none")
  /\ pc = "structured" => (Len(calls) = 2 /\ structOutcome = "none")
  /\ Done <=> response # Null
  /\ Done => Result.status \in {VALID, CORRECTED, UNVERIFIABLE, INVALID}
  /\ (Done /\ geoOutcome \in FailureKinds /\ structOutcome \in FailureKinds \cup {"none"})
       => /\ finalResult = Null
          /\ Result.status \in {UNVERIFIABLE, INVALID}
          /\ Result.coordinates = Null
          /\ Result.confidence = Null
          /\ Result.corrections = Null

\* the free-text lookup threw and the structured search met an HTTP error
Wit_C4_BothFailed ==
  /\ Done
  /\ geoOutcome = "throw"
  /\ structOutcome = "httpError"
  /\ Result.status = UNVERIFIABLE

\* C5: no call of the verifier when parsing failed; otherwise the free-text
\* lookup exactly once, then the structured search at most once and only
\* after the free-text lookup returned nothing for a parsed address with a
\* street or a city; the verified address handed to the reconciler is the
\* free-text result if there is one, else the structured result.
Thm_C5_CallSequence ==
  /\ calls \in {<<>>, <<"geocodeAddress">>, <<"geocodeAddress", "structuredSearch">>}
  /\ parsed = Null => calls = <<>>
  /\ (parsed # Null /\ pc # "start") => Len(calls) >= 1
  /\ Len(calls) = 2 =>
       /\ geoOutcome # "none"
       /\ geocoded = Null
       /\ Parsed.street # Null \/ Parsed.city # Null
  /\ structured # Null => Len(calls) = 2
  /\ (Done /\ parsed # Null) =>
       /\ geoOutcome # "none"
       /\ Len(calls) = 2 <=> structOutcome # "none"
       /\ finalResult = IF geocoded # Null THEN geocoded ELSE structured

\* the free-text lookup found nothing, the structured search found an
\* address, and that address was handed to the reconciler
Wit_C5_Fallback ==
  /\ Done
  /\ calls = <<"geocodeAddress", "structuredSearch">>
  /\ geocoded = Null
  /\ structured # Null
  /\ finalResult = structured

\* parsing succeeded and gave neither a street nor a city
UnderSpecified ==
  /\ parsed # Null
  /\ ~Truthy(Parsed.street)
  /\ ~Truthy(Parsed.city)

\* C6 as the specification states it: an address parsed without street and
\* without city ends INVALID, and no call of the verifier is made for it.
Ctr_C6_NoVerificationAttempted ==
  (Done /\ UnderSpecified) =>
    /\ Result.status = INVALID
    /\ calls = <<>>

\* C6: for an address parsed without street and without city the free-text
\* lookup is called once and the structured search never; the status is
\* INVALID with a null address when that lookup gives no verified address,
\* and is the reconciler's (VALID when no field differs) when it gives a US
\* address.
Thm_C6_UnderSpecified ==
  UnderSpecified =>
    /\ pc # "start" => calls = <<"geocodeAddress">>
    /\ pc # "structured"
    /\ structOutcome = "none"
    /\ Done =>
         /\ finalResult = geocoded
         /\ finalResult = Null =>
              (Result.status = INVALID /\ Result.address = Null)
         /\ (finalResult # Null /\ Verified.country = <<"U","S">>
               /\ DifferingFields(Parsed, Verified) = {})
              => Result.status = VALID

\* a state and a ZIP code only, the free-text lookup found nothing: INVALID
\* after one call of the verifier
Wit_C6_LookupFoundNothing ==
  /\ Done
  /\ UnderSpecified
  /\ Truthy(Parsed.zipCode)
  /\ geoOutcome = "notFound"
  /\ calls = <<"geocodeAddress">>
  /\ Result.status = INVALID

\* the indices of Fields that differ, in increasing order
DifferingInOrder(p, v) ==
  LET S == DifferingFields(p, v)
  IN  [k \in 1..Cardinality(S) |->
         CHOOSE i \in S : Cardinality({j \in S : j < i}) = k - 1]

\* one Correction for each field that differs, in the order of Fields
ExpectedCorrections(p, v) ==
  LET order == DifferingInOrder(p, v)
  IN  [k \in 1..Len(order) |->
         [field     |-> Fields[order[k]],
          original  |-> p[Fields[order[k]]],
          corrected |-> v[Fields[order[k]]]]]

\* the corrections of the result as a list (empty when the result has none)
ResultCorrections ==
  IF Result.corrections = Null THEN <<>> ELSE Result.corrections[1]

HasCorrection(field) ==
  \E k \in DOMAIN ResultCorrections : ResultCorrections[k].field = field

\* C8: a field whose verified value or whose parsed value is absent gets no
\* Correction, and a result whose only differences are absent values is VALID.
Ctr_C8_AbsenceIsNoMismatch ==
  Reconciled =>
    /\ \A i \in DOMAIN Fields :
         (Verified[Fields[i]] = Null \/ Parsed[Fields[i]] = Null)
           => ~HasCorrection(Fields[i])
    /\ (\A i \in DOMAIN Fields :
          (Verified[Fields[i]] # Null /\ Parsed[Fields[i]] # Null)
            => ~FieldDiffers(Fields[i], Parsed, Verified))
         => Result.status = VALID

\* C9: when a verified address is present, the address of the result has the
\* verified streetNumber, street, city, state and zipCode, the parsed unit,
\* the verified latitude and longitude as coordinates, and the verified
\* confidence.
Thm_C9_AddressFromVerified ==
  (Done /\ finalResult # Null) =>
    /\ Result.address # Null
    /\ \A i \in DOMAIN Fields : Result.address[1][Fields[i]] = Verified[Fields[i]]
    /\ Result.address[1].unit = Parsed.unit
    /\ Result.coordinates =
         Some([latitude |-> Verified.latitude, longitude |-> Verified.longitude])
    /\ Result.confidence = Some(Verified.confidence)

\* a verified address that differs from the parsed one in the street number,
\* for a request with a unit
Wit_C9_UnitAndDifferingNumber ==
  /\ Done
  /\ finalResult # Null
  /\ Parsed.unit # Null
  /\ Parsed.streetNumber # Null
  /\ Verified.streetNumber # Null
  /\ Parsed.streetNumber # Verified.streetNumber
  /\ Result.address[1].streetNumber = Verified.streetNumber
  /\ Result.address[1].unit = Parsed.unit

\* C10: an INVALID result for a verified address outside the US, or for an
\* input that could not be parsed, has a null address and exactly one issue.
Ctr_C10_InvalidHasNoAddress ==
  (/\ Done
   /\ Result.status = INVALID
   /\ \/ parsed = Null
      \/ (finalResult # Null /\ Verified.country # <<"U","S">>))
    => /\ Result.address = Null
       /\ Result.issues # Null
       /\ Len(Result.issues[1]) = 1

\* C11: an UNVERIFIABLE result without a verified address carries the parsed
\* streetNumber, street, unit, city, state and zipCode in its address, a null
\* address.formatted, and neither coordinates nor confidence.
Thm_C11_UnverifiableFromParsed ==
  (Done /\ parsed # Null /\ finalResult = Null /\ Result.status = UNVERIFIABLE) =>
    /\ Result.address # Null
    /\ \A i \in DOMAIN Fields : Result.address[1][Fields[i]] = Parsed[Fields[i]]
    /\ Result.address[1].unit = Parsed.unit
    /\ Result.address[1].formatted = Null
    /\ Result.coordinates = Null
    /\ Result.confidence = Null

\* an unverifiable request with a street number, a street, a unit and a city
Wit_C11_ParsedWithUnit ==
  /\ Done
  /\ parsed # Null
  /\ finalResult = Null
  /\ Result.status = UNVERIFIABLE
  /\ Parsed.unit # Null
  /\ Parsed.streetNumber # Null
  /\ Parsed.city # Null
  /\ Result.address # Null
  /\ Result.address[1].street = Parsed.street

\* the message for a field that is absent
AbsentMessage(field) ==
  CASE field = "streetNumber" -> "Street number could not be determined"
    [] field = "street"       -> "Street name could not be determined"
    [] field = "city"         -> "City could not be determined"
    [] field = "state"        -> "State could not be determined"
    [] field = "zipCode"      -> "ZIP code could not be determined"

\* the state code is one of the table, whatever its case
RecognizedState(code) ==
  \E i \in DOMAIN US_STATES : ToUpper(US_STATES[i][1]) = ToUpper(code)

\* five digits, or five digits, a hyphen and four digits
WellFormedZip(zip) ==
  /\ Len(zip) \in {5, 10}
  /\ \A i \in DOMAIN zip : IF i = 6 THEN zip[i] = "-" ELSE IsDigit(zip[i])

\* the problem of one field, if it has one
ExpectedIssue(field, p) ==
  IF ~Truthy(p[field]) THEN <<[message |-> AbsentMessage(field), value |-> Null]>>
  ELSE IF field = "state" /\ ~RecognizedState(p.state[1])
  THEN <<[message |-> "Invalid state: ", value |-> p.state]>>
  ELSE IF field = "zipCode" /\ ~WellFormedZip(p.zipCode[1])
  THEN <<[message |-> "Invalid ZIP code format: ", value |-> p.zipCode]>>
  ELSE <<>>

\* the issues of the result as a list (empty when the result has none)
ResultIssues == IF Result.issues = Null THEN <<>> ELSE Result.issues[1]

ParseReturned == pc # "start"

\* the input is a string that is not empty after trimming
NonEmptyText ==
  addressInput.kind = "string" /\ Trim(addressInput.text) # <<>>

\* C13: parseAddress returns null exactly when the input is not a string or
\* is empty after trimming (white space only included); for every other input
\* it returns a ParsedAddress whose raw is the input.
Ctr_C13_NullIffBlank ==
  ParseReturned =>
    /\ parsed = Null <=> ~NonEmptyText
    /\ parsed # Null => Parsed.raw = addressInput.text

\* the positions of the standalone 2-letter tokens of the text
TwoLetterTokens(s) ==
  {p \in 1..(Len(s) - 1) :
     /\ IsLetter(s[p]) /\ IsLetter(s[p + 1])
     /\ (p = 1 \/ ~IsWordChar(s[p - 1]))
     /\ (p + 2 > Len(s) \/ ~IsWordChar(s[p + 2]))}

\* those that are recognized state codes
StateCodeTokens(s) ==
  {p \in TwoLetterTokens(s) : RecognizedState(SubSeq(s, p, p + 1))}

\* the table's entries whose full name occurs in the text, whatever the case
StateNamesIn(s) ==
  {i \in DOMAIN US_STATES :
     \E p \in 1..Len(s) :
       /\ p + Len(US_STATES[i][2]) - 1 <= Len(s)
       /\ ToLower(SubSeq(s, p, p + Len(US_STATES[i][2]) - 1)) = ToLower(US_STATES[i][2])}

\* the least element of a non-empty set of numbers
Least(S) == CHOOSE p \in S : \A q \in S : p <= q

\* the state the claim expects for a text: the first recognized 2-letter
\* token, else the first full state name, else none
ExpectedState(s) ==
  IF StateCodeTokens(s) # {}
  THEN Some(ToUpper(SubSeq(s, Least(StateCodeTokens(s)), Least(StateCodeTokens(s)) + 1)))
  ELSE IF StateNamesIn(s) # {}
  THEN Some(US_STATES[Least(StateNamesIn(s))][1])
  ELSE Null

\* C14: the parsed state is the first standalone 2-letter token that is a
\* recognized state code, also when an earlier 2-letter token is not one;
\* only without such a token is the first full state name used.
Ctr_C14_FirstRecognizedCode ==
  (ParseReturned /\ parsed # Null) =>
    Parsed.state = ExpectedState(addressInput.text)

\* the text has standalone 2-letter tokens, none of them a recognized state
\* code, and no full state name
OnlyUnknownCodes(s) ==
  /\ TwoLetterTokens(s) # {}
  /\ StateCodeTokens(s) = {}
  /\ StateNamesIn(s) = {}

\* the result has an issue with the message
HasIssue(message) ==
  \E k \in DOMAIN ResultIssues : ResultIssues[k].message = message

\* C15: a standalone 2-letter token that is not a recognized state code still
\* populates parsed.state, and without a verified address the result reports
\* "Invalid state: XX" and not "State could not be determined".
Ctr_C15_UnknownCodeKept ==
  (ParseReturned /\ parsed # Null /\ OnlyUnknownCodes(addressInput.text)) =>
    /\ Parsed.state # Null
    /\ \E p \in TwoLetterTokens(addressInput.text) :
         Parsed.state = Some(ToUpper(SubSeq(addressInput.text, p, p + 1)))
    /\ (Done /\ finalResult = Null) =>
         /\ HasIssue("Invalid state: ")
         /\ ~HasIssue("State could not be determined")

\* the function has returned
Returned(fn) == pc = "returned" /\ addressInput.fn = fn

ExpectedUnit(designator, identifier) ==
  (IF designator = <<"#">> THEN <<"U","n","i","t">>
   ELSE Lookup(UNIT_TYPES, StripTrailingDot(ToLower(designator)))[1])
  \o <<" ">> \o identifier

\* C17: for a street segment "<number> <name words> <designator> <identifier>"
\* the unit is "<normalized designator> <identifier>" ("Unit" for a bare #),
\* the street number is the leading number, and the street is the normalized
\* name with no unit text in it.
Ctr_C17_UnitNumberName ==
  Returned("parseStreetAddress") =>
    /\ response[1].unit =
         Some(ExpectedUnit(addressInput.arg.designator, addressInput.arg.identifier))
    /\ response[1].number = Some(addressInput.arg.number)
    /\ response[1].street = Some(addressInput.arg.normalized)

\* C18: the confidence is an integer in 0..100, and making one more field
\* present or raising the importance within [0, 1] never lowers it.
Ctr_C18_ConfidenceMonotone ==
  Returned("calculateConfidence") =>
    /\ response[1].lo \in 0..100
    /\ response[1].hi \in 0..100
    /\ response[1].lo <= response[1].hi

\* C19: every returned result is internally consistent: issues and corrections
\* are never both present; a VALID result has neither; a CORRECTED result has a
\* non-empty corrections list, a confidence of at least 70 and a non-null
\* address; an INVALID result has at least one issue; an UNVERIFIABLE result
\* has a non-null address.
Thm_C19_ResultConsistent ==
  Done =>
    /\ ~(Result.issues # Null /\ Result.corrections # Null)
    /\ Result.status = VALID =>
         (Result.issues = Null /\ Result.corrections = Null)
    /\ Result.status = CORRECTED =>
         /\ Result.corrections # Null
         /\ Len(Result.corrections[1]) > 0
         /\ Result.confidence # Null
         /\ Result.confidence[1] >= 70
         /\ Result.address # Null
    /\ Result.status = INVALID =>
         (Result.issues # Null /\ Len(Result.issues[1]) > 0)
    /\ Result.status = UNVERIFIABLE => Result.address # Null

\* a disagreement at a confidence below 70: the result is UNVERIFIABLE, with
\* corrections, without issues, and with the verified address
Wit_C19_LowConfidenceDisagreement ==
  /\ Reconciled
  /\ Result.status = UNVERIFIABLE
  /\ Result.corrections # Null
  /\ Result.issues = Null
  /\ Result.address # Null
  /\ Result.confidence[1] < 70

=============================================================================
